---- MODULE Spec2Model ----
(***************************************************************************)
(* Model of the counters-test telemetry bootstrap (src/unnamed/part_000,   *)
(* the module that requires ./logger.js).                                  *)
(*                                                                         *)
(* The module is one JavaScript program run by a single-threaded event     *)
(* loop.  Its state is the module-level bindings (RESOURCE_ATTRIBUTES,     *)
(* requestCounter, backgroundCounter), the position of the module's top    *)
(* level (top), the position of the async function initMetrics and of the  *)
(* promise chain hanging off it (pc), and what the collaborators have      *)
(* been asked to do (the log, the provider, the counters' additions, the   *)
(* timer, the process exit).                                               *)
(*                                                                         *)
(* Run-to-completion is modelled by the guards: a synchronous stretch of   *)
(* initMetrics runs either inside the top-level call (top = "init_call")   *)
(* or as a continuation after the module has loaded (top = "loaded");     *)
(* request callbacks and timer ticks are macrotasks and run only when no   *)
(* JavaScript is on the stack and no continuation is queued (Quiescent).   *)
(***************************************************************************)
EXTENDS Integers, Sequences, FiniteSets, TLC

\* ------------------------------------------------------------------ bounds
\* Number of inbound HTTP calls explored.
MaxRequests == 2
\* Number of background-timer ticks explored.
MaxTicks == 2
\* Number of diagnostic reports of the OpenTelemetry SDK explored.
MaxDiagCalls == 1

\* --------------------------------------------------------- program constants
\* JavaScript's undefined: an unset environment variable, an absent
\* attribute, an unbound `let`.
Undefined == "<undefined>"

\* Semconv.SEMRESATTRS_* keys used by the program.
SERVICE_NAMESPACE   == "service.namespace"
SERVICE_NAME        == "service.name"
SERVICE_VERSION     == "service.version"
K8S_POD_NAME_KEY    == "k8s.pod.name"
CLOUD_PLATFORM      == "cloud.platform"
FAAS_ID             == "faas.id"
SERVICE_INSTANCE_ID == "service.instance.id"

\* const RESOURCE_ATTRIBUTES = {...} as written in the source.
STATIC_ATTRIBUTES ==
    [k \in {SERVICE_NAMESPACE, SERVICE_NAME, SERVICE_VERSION} |->
        CASE k = SERVICE_NAMESPACE -> "nielm"
          [] k = SERVICE_NAME      -> "counters-test"
          [] k = SERVICE_VERSION   -> "1.0.0"]

GENERIC_TASK == "generic_task"
COUNTERS_PREFIX == "nielm-test/"
REQUEST_COUNTER_NAME == "nielm-test/request-counter"
BACKGROUND_COUNTER_NAME == "nielm-test/background-counter"
CounterNames == {REQUEST_COUNTER_NAME, BACKGROUND_COUNTER_NAME}
EXPORT_INTERVAL_MILLIS == 10000
EXPORT_TIMEOUT_MILLIS == 10000
EXIT_STATUS == 1

\* ------------------------------------------------------------------ inputs
\* process.env: each variable is unset, or set to a string.  The empty
\* string is a set-but-falsy value in JavaScript.
EnvNames == {"KUBERNETES_SERVICE_HOST", "K8S_POD_NAME",
             "FUNCTION_TARGET", "USE_OTEL_GCF_WORKAROUND"}
EnvValues(n) ==
    CASE n = "KUBERNETES_SERVICE_HOST" -> {Undefined, "10.0.0.1"}
      [] n = "K8S_POD_NAME"            -> {Undefined, "", "pod-1"}
      [] n = "FUNCTION_TARGET"         -> {Undefined, "handleHttpReq"}
      [] n = "USE_OTEL_GCF_WORKAROUND" -> {Undefined, "", "true"}
Environments == {e \in [EnvNames -> {Undefined, "", "10.0.0.1", "pod-1",
                                     "handleHttpReq", "true"}] :
                    \A n \in EnvNames : e[n] \in EnvValues(n)}

\* What the detector may report: a platform, a function-instance id
\* (possibly the empty string) and, to exercise the precedence of the
\* merge, a service name of its own.
DetectedPlatforms == {Undefined, "gcp_cloud_functions"}
DetectedFaasIds == {Undefined, "", "abc123"}
DetectedServiceNames == {Undefined, "detected-svc"}

EmptyAttributes == [k \in {} |-> ""]

DetectedAttributes(p, f, s) ==
    LET v == [k \in {CLOUD_PLATFORM, FAAS_ID, SERVICE_NAME} |->
                 CASE k = CLOUD_PLATFORM -> p
                   [] k = FAAS_ID        -> f
                   [] k = SERVICE_NAME   -> s]
    IN  [k \in {x \in DOMAIN v : v[x] # Undefined} |-> v[k]]

\* ----------------------------------------------------------- pure helpers
\* JavaScript truthiness of a string-or-undefined value.
Truthy(v) == v # Undefined /\ v # ""

\* obj[key] on an attribute mapping: undefined when the key is absent.
Get(attrs, k) == IF k \in DOMAIN attrs THEN attrs[k] ELSE Undefined

\* obj[key] = value
Put(attrs, k, v) ==
    [x \in DOMAIN attrs \cup {k} |-> IF x = k THEN v ELSE attrs[x]]

\* value?.toString(): undefined stays undefined, a string is itself.
ToStringOpt(v) == v

\* JSON.stringify's view of a resource: its attribute mapping.
Stringify(attrs) == attrs

VARIABLES
    env,                  \* process.env (read-only)
    RESOURCE_ATTRIBUTES,  \* the module-level explicit identity mapping
    gcpResources,         \* const gcpResources of initMetrics
    resources,            \* const resources of initMetrics (the merge)
    awaited,              \* state of the promise initMetrics is suspended on
    pc,                   \* position of initMetrics and its then/catch chain
    top,                  \* position of the module's top-level code
    thrown,               \* where the exception that rejected the chain arose
    exporter,             \* whether new GcpMetricExporter(...) has returned
    meterProvider,        \* the MeterProvider, once constructed
    meter,                \* whether getMeter has returned
    created,              \* names passed to createCounter, in order
    requestCounter,       \* module-level let requestCounter
    backgroundCounter,    \* module-level let backgroundCounter
    adds,                 \* per counter name, the add(1) calls received
    unboundAdds,          \* add attempted on undefined (a TypeError)
    log,                  \* the calls made on the bunyan logger, in order
    httpRegistered,       \* functions.http('handleHttpReq', ...) has run
    timerStarted,         \* setInterval(backgroundTask, 2000) has run
    exits,                \* process.exit calls, as a sequence of statuses
    requests,             \* invocations of the HTTP handler
    okResponses,          \* res.send('OK') calls
    ticks                 \* invocations of backgroundTask

vars == <<env, RESOURCE_ATTRIBUTES, gcpResources, resources, awaited, pc, top,
          thrown, exporter, meterProvider, meter, created, requestCounter,
          backgroundCounter, adds, unboundAdds, log, httpRegistered,
          timerStarted, exits, requests, okResponses, ticks>>

\* Groups of variables for UNCHANGED clauses.
identityVars == <<RESOURCE_ATTRIBUTES, gcpResources, resources>>
pipelineVars == <<exporter, meterProvider, meter, created, requestCounter,
                  backgroundCounter>>
trafficVars == <<adds, unboundAdds, requests, okResponses, ticks>>
processVars == <<httpRegistered, timerStarted, exits>>

NoResource == [present |-> FALSE, attributes |-> EmptyAttributes,
               waitForAsyncAttributes |-> FALSE, resolved |-> FALSE]
NoProvider == [constructed |-> FALSE, resource |-> EmptyAttributes,
               resolved |-> FALSE, exportIntervalMillis |-> 0,
               exportTimeoutMillis |-> 0]

\* One call of the logger: its level, its message, its structured payload.
Entry(level, msg) ==
    [level |-> level, msg |-> msg, payload |-> EmptyAttributes]

Init ==
    /\ env \in Environments
    /\ RESOURCE_ATTRIBUTES = STATIC_ATTRIBUTES
    /\ gcpResources = NoResource
    /\ resources = NoResource
    /\ awaited = "none"
    /\ pc = "start"
    /\ top = "init_call"
    /\ thrown = "none"
    /\ exporter = FALSE
    /\ meterProvider = NoProvider
    /\ meter = FALSE
    /\ created = <<>>
    /\ requestCounter = Undefined
    /\ backgroundCounter = Undefined
    /\ adds = [n \in CounterNames |-> 0]
    /\ unboundAdds = 0
    /\ log = <<>>
    /\ httpRegistered = FALSE
    /\ timerStarted = FALSE
    /\ exits = <<>>
    /\ requests = 0
    /\ okResponses = 0
    /\ ticks = 0

\* ------------------------------------------------------------- scheduling
\* initMetrics is suspended on an await.
AwaitPcs == {"await_detect", "await_merged"}

\* JavaScript of initMetrics or of its then/catch chain may run: inside the
\* top-level call initMetrics() or, once the module has loaded, as a
\* continuation.  Nothing runs after process.exit.
CanRun == top \in {"init_call", "loaded"} /\ exits = <<>>

\* The event loop is idle: macrotasks (an inbound request, a timer tick,
\* the completion of a collaborator's asynchronous work) may be delivered.
Quiescent ==
    /\ top = "loaded"
    /\ exits = <<>>
    /\ \/ pc \in AwaitPcs /\ awaited = "pending"
       \/ pc = "done"

\* A collaborator throws at `point`: the async function's promise rejects.
Throw(point) == pc' = "rejected" /\ thrown' = point

\* The promise handed to an await is pending, or already settled.
AwaitOutcomes == {"pending", "fulfilled", "rejected"}

\* logger.<level>(msg)
Logged(level, msg) == log' = Append(log, Entry(level, msg))

\* ------------------------------------------------- initMetrics, lines 47-119
\* line 48: logger.debug('initializing metrics')
LogInitializing ==
    /\ pc = "start" /\ CanRun
    /\ Logged("debug", "initializing metrics")
    /\ pc' = "k8s_check"
    /\ UNCHANGED <<env, identityVars, awaited, top, thrown, pipelineVars,
                   trafficVars, processVars>>

\* K8sCheck with the orchestrator host copied where the pod name belongs.
K8sCheckHostAsPodName ==
    /\ pc = "k8s_check" /\ CanRun
    /\ IF Truthy(env["KUBERNETES_SERVICE_HOST"])
       THEN IF Truthy(env["K8S_POD_NAME"])
            THEN /\ RESOURCE_ATTRIBUTES' =
                        Put(RESOURCE_ATTRIBUTES, K8S_POD_NAME_KEY,
                            env["KUBERNETES_SERVICE_HOST"])
                 /\ UNCHANGED log
            ELSE /\ Logged("warn", "K8S_POD_NAME not set")
                 /\ UNCHANGED RESOURCE_ATTRIBUTES
       ELSE UNCHANGED <<RESOURCE_ATTRIBUTES, log>>
    /\ pc' = "detect"
    /\ UNCHANGED <<env, gcpResources, resources, awaited, top, thrown,
                   pipelineVars, trafficVars, processVars>>

\* K8sCheck treating a missing pod name as an error: it throws instead of
\* warning.
K8sCheckFatalWithoutPodName ==
    /\ pc = "k8s_check" /\ CanRun
    /\ IF Truthy(env["KUBERNETES_SERVICE_HOST"])
       THEN IF Truthy(env["K8S_POD_NAME"])
            THEN /\ RESOURCE_ATTRIBUTES' =
                        Put(RESOURCE_ATTRIBUTES, K8S_POD_NAME_KEY,
                            env["K8S_POD_NAME"])
                 /\ pc' = "detect"
                 /\ UNCHANGED <<log, thrown>>
            ELSE /\ Throw("k8s_check")
                 /\ UNCHANGED <<RESOURCE_ATTRIBUTES, log>>
       ELSE /\ pc' = "detect"
            /\ UNCHANGED <<RESOURCE_ATTRIBUTES, log, thrown>>
    /\ UNCHANGED <<env, gcpResources, resources, awaited, top,
                   pipelineVars, trafficVars, processVars>>

\* lines 50-63: under Kubernetes, take the pod name from the environment,
\* or warn that it is missing.
K8sCheck ==
    /\ pc = "k8s_check" /\ CanRun
    /\ IF Truthy(env["KUBERNETES_SERVICE_HOST"])
       THEN IF Truthy(env["K8S_POD_NAME"])
            THEN /\ RESOURCE_ATTRIBUTES' =
                        Put(RESOURCE_ATTRIBUTES, K8S_POD_NAME_KEY,
                            env["K8S_POD_NAME"])
                 /\ UNCHANGED log
            ELSE /\ Logged("warn", "K8S_POD_NAME not set")
                 /\ UNCHANGED RESOURCE_ATTRIBUTES
       ELSE UNCHANGED <<RESOURCE_ATTRIBUTES, log>>
    /\ pc' = "detect"
    /\ UNCHANGED <<env, gcpResources, resources, awaited, top, thrown,
                   pipelineVars, trafficVars, processVars>>

\* line 65: const gcpResources = new GcpDetectorSync().detect()
Detect ==
    /\ pc = "detect" /\ CanRun
    /\ \/ \E p \in DetectedPlatforms, f \in DetectedFaasIds,
             s \in DetectedServiceNames, w \in BOOLEAN :
            /\ gcpResources' = [present |-> TRUE,
                                attributes |-> DetectedAttributes(p, f, s),
                                waitForAsyncAttributes |-> w,
                                resolved |-> ~w]
            /\ pc' = "wait_detect"
            /\ UNCHANGED thrown
       \/ /\ Throw("detect")
          /\ UNCHANGED gcpResources
    /\ UNCHANGED <<env, RESOURCE_ATTRIBUTES, resources, awaited, top,
                   pipelineVars, trafficVars, processVars, log>>

\* Lines 66-67 without the await: the detector's promise is dropped.
AwaitDetectNotAwaited ==
    /\ pc = "wait_detect" /\ CanRun
    /\ pc' = "gcf_check"
    /\ UNCHANGED <<env, identityVars, awaited, top, thrown, pipelineVars,
                   trafficVars, processVars, log>>

\* lines 66-67: if (gcpResources.waitForAsyncAttributes) await it.
AwaitDetect ==
    /\ pc = "wait_detect" /\ CanRun
    /\ IF gcpResources.waitForAsyncAttributes
       THEN /\ pc' = "await_detect"
            /\ awaited' \in AwaitOutcomes
       ELSE /\ pc' = "gcf_check"
            /\ UNCHANGED awaited
    /\ UNCHANGED <<env, identityVars, top, thrown, pipelineVars, trafficVars,
                   processVars, log>>

\* line 67, continuation: the awaited promise has settled.
ResumeDetect ==
    /\ pc = "await_detect" /\ top = "loaded" /\ exits = <<>>
    /\ awaited \in {"fulfilled", "rejected"}
    /\ IF awaited = "fulfilled"
       THEN /\ gcpResources' = [gcpResources EXCEPT !.resolved = TRUE]
            /\ pc' = "gcf_check"
            /\ UNCHANGED thrown
       ELSE /\ Throw("await_detect")
            /\ UNCHANGED gcpResources
    /\ awaited' = "none"
    /\ UNCHANGED <<env, RESOURCE_ATTRIBUTES, resources, top, pipelineVars,
                   trafficVars, processVars, log>>

\* GcfCheck with the platform assignment moved under the FAAS_ID test.
GcfCheckPlatformOnlyWithFaasId ==
    /\ pc = "gcf_check" /\ CanRun
    /\ IF Truthy(env["FUNCTION_TARGET"]) /\ Truthy(env["USE_OTEL_GCF_WORKAROUND"])
       THEN LET withPlatform ==
                    Put(RESOURCE_ATTRIBUTES, CLOUD_PLATFORM, GENERIC_TASK)
                faasId == ToStringOpt(Get(gcpResources.attributes, FAAS_ID))
            IN  IF Truthy(faasId)
                THEN /\ RESOURCE_ATTRIBUTES' =
                            Put(withPlatform, SERVICE_INSTANCE_ID, faasId)
                     /\ UNCHANGED log
                ELSE /\ UNCHANGED RESOURCE_ATTRIBUTES
                     /\ Logged("warn", "FAAS_ID not set")
       ELSE /\ Logged("warn", "Using Default Cloud Functions Behavior")
            /\ UNCHANGED RESOURCE_ATTRIBUTES
    /\ pc' = "merge"
    /\ UNCHANGED <<env, gcpResources, resources, awaited, top, thrown,
                   pipelineVars, trafficVars, processVars>>

\* GcfCheck testing the FAAS_ID attribute against undefined only, so that
\* an empty identifier is copied too.
GcfCheckDefinedTest ==
    /\ pc = "gcf_check" /\ CanRun
    /\ IF Truthy(env["FUNCTION_TARGET"]) /\ Truthy(env["USE_OTEL_GCF_WORKAROUND"])
       THEN LET withPlatform ==
                    Put(RESOURCE_ATTRIBUTES, CLOUD_PLATFORM, GENERIC_TASK)
                faasId == ToStringOpt(Get(gcpResources.attributes, FAAS_ID))
            IN  IF faasId # Undefined
                THEN /\ RESOURCE_ATTRIBUTES' =
                            Put(withPlatform, SERVICE_INSTANCE_ID, faasId)
                     /\ UNCHANGED log
                ELSE /\ RESOURCE_ATTRIBUTES' = withPlatform
                     /\ Logged("warn", "FAAS_ID not set")
       ELSE /\ Logged("warn", "Using Default Cloud Functions Behavior")
            /\ UNCHANGED RESOURCE_ATTRIBUTES
    /\ pc' = "merge"
    /\ UNCHANGED <<env, gcpResources, resources, awaited, top, thrown,
                   pipelineVars, trafficVars, processVars>>

\* GcfCheck entering the workaround when either variable is set.
GcfCheckEitherFlag ==
    /\ pc = "gcf_check" /\ CanRun
    /\ IF Truthy(env["FUNCTION_TARGET"]) \/ Truthy(env["USE_OTEL_GCF_WORKAROUND"])
       THEN LET withPlatform ==
                    Put(RESOURCE_ATTRIBUTES, CLOUD_PLATFORM, GENERIC_TASK)
                faasId == ToStringOpt(Get(gcpResources.attributes, FAAS_ID))
            IN  IF Truthy(faasId)
                THEN /\ RESOURCE_ATTRIBUTES' =
                            Put(withPlatform, SERVICE_INSTANCE_ID, faasId)
                     /\ UNCHANGED log
                ELSE /\ RESOURCE_ATTRIBUTES' = withPlatform
                     /\ Logged("warn", "FAAS_ID not set")
       ELSE /\ Logged("warn", "Using Default Cloud Functions Behavior")
            /\ UNCHANGED RESOURCE_ATTRIBUTES
    /\ pc' = "merge"
    /\ UNCHANGED <<env, gcpResources, resources, awaited, top, thrown,
                   pipelineVars, trafficVars, processVars>>

\* lines 70-91: in Cloud Functions with the workaround opted in, force the
\* platform to generic_task and copy the function-instance id; otherwise
\* warn that the default behaviour is used.
GcfCheck ==
    /\ pc = "gcf_check" /\ CanRun
    /\ IF Truthy(env["FUNCTION_TARGET"]) /\ Truthy(env["USE_OTEL_GCF_WORKAROUND"])
       THEN LET withPlatform ==
                    Put(RESOURCE_ATTRIBUTES, CLOUD_PLATFORM, GENERIC_TASK)
                faasId == ToStringOpt(Get(gcpResources.attributes, FAAS_ID))
            IN  IF Truthy(faasId)
                THEN /\ RESOURCE_ATTRIBUTES' =
                            Put(withPlatform, SERVICE_INSTANCE_ID, faasId)
                     /\ UNCHANGED log
                ELSE /\ RESOURCE_ATTRIBUTES' = withPlatform
                     /\ Logged("warn", "FAAS_ID not set")
       ELSE /\ Logged("warn", "Using Default Cloud Functions Behavior")
            /\ UNCHANGED RESOURCE_ATTRIBUTES
    /\ pc' = "merge"
    /\ UNCHANGED <<env, gcpResources, resources, awaited, top, thrown,
                   pipelineVars, trafficVars, processVars>>

\* The merge with receiver and argument swapped: the detector's entries win.
MergeAttributesReceiverWins(this, other) ==
    [k \in DOMAIN this \cup DOMAIN other |->
        IF k \in DOMAIN this THEN this[k] ELSE other[k]]

\* Resource.merge: the union of both mappings, the argument's entries
\* taking precedence over the receiver's.
MergeAttributes(this, other) ==
    [k \in DOMAIN this \cup DOMAIN other |->
        IF k \in DOMAIN other THEN other[k] ELSE this[k]]

\* line 93: const resources = gcpResources.merge(new Resource(RESOURCE_ATTRIBUTES))
Merge ==
    /\ pc = "merge" /\ CanRun
    /\ \/ /\ resources' =
                [present |-> TRUE,
                 attributes |-> MergeAttributes(gcpResources.attributes,
                                                RESOURCE_ATTRIBUTES),
                 waitForAsyncAttributes |-> TRUE,
                 resolved |-> FALSE]
          /\ pc' = "wait_merged"
          /\ UNCHANGED thrown
       \/ /\ Throw("merge")
          /\ UNCHANGED resources
    /\ UNCHANGED <<env, RESOURCE_ATTRIBUTES, gcpResources, awaited, top,
                   pipelineVars, trafficVars, processVars, log>>

\* Line 94 without the await: the promise is dropped and initMetrics runs on.
AwaitMergedNotAwaited ==
    /\ pc = "wait_merged" /\ CanRun
    /\ pc' = "log_resources"
    /\ UNCHANGED <<env, identityVars, awaited, top, thrown, pipelineVars,
                   trafficVars, processVars, log>>

\* line 94: await resources.waitForAsyncAttributes()
AwaitMerged ==
    /\ pc = "wait_merged" /\ CanRun
    /\ pc' = "await_merged"
    /\ awaited' \in AwaitOutcomes
    /\ UNCHANGED <<env, identityVars, top, thrown, pipelineVars, trafficVars,
                   processVars, log>>

\* The await of line 94 under a timeout: a promise that is still pending is
\* given up as if it had rejected.
ResumeMergedOnTimeout ==
    /\ pc = "await_merged" /\ top = "loaded" /\ exits = <<>>
    /\ awaited \in {"pending", "fulfilled", "rejected"}
    /\ IF awaited = "fulfilled"
       THEN /\ resources' = [resources EXCEPT !.resolved = TRUE]
            /\ pc' = "log_resources"
            /\ UNCHANGED thrown
       ELSE /\ Throw("await_merged")
            /\ UNCHANGED resources
    /\ awaited' = "none"
    /\ UNCHANGED <<env, RESOURCE_ATTRIBUTES, gcpResources, top, pipelineVars,
                   trafficVars, processVars, log>>

\* line 94, continuation.
ResumeMerged ==
    /\ pc = "await_merged" /\ top = "loaded" /\ exits = <<>>
    /\ awaited \in {"fulfilled", "rejected"}
    /\ IF awaited = "fulfilled"
       THEN /\ resources' = [resources EXCEPT !.resolved = TRUE]
            /\ pc' = "log_resources"
            /\ UNCHANGED thrown
       ELSE /\ Throw("await_merged")
            /\ UNCHANGED resources
    /\ awaited' = "none"
    /\ UNCHANGED <<env, RESOURCE_ATTRIBUTES, gcpResources, top, pipelineVars,
                   trafficVars, processVars, log>>

\* line 95: logger.info('Got Resource Attributes: ' + JSON.stringify(resources))
LogResources ==
    /\ pc = "log_resources" /\ CanRun
    /\ log' = Append(log, [Entry("info", "Got Resource Attributes") EXCEPT
                               !.payload = Stringify(resources.attributes)])
    /\ pc' = "exporter"
    /\ UNCHANGED <<env, identityVars, awaited, top, thrown, pipelineVars,
                   trafficVars, processVars>>

\* line 97: const exporter = new GcpMetricExporter({prefix: ...})
NewExporter ==
    /\ pc = "exporter" /\ CanRun
    /\ \/ /\ exporter' = TRUE
          /\ pc' = "provider"
          /\ UNCHANGED thrown
       \/ /\ Throw("exporter")
          /\ UNCHANGED exporter
    /\ UNCHANGED <<env, identityVars, awaited, top, meterProvider, meter,
                   created, requestCounter, backgroundCounter, trafficVars,
                   processVars, log>>

\* lines 99-108: const meterProvider = new MeterProvider({resource, readers})
NewMeterProvider ==
    /\ pc = "provider" /\ CanRun
    /\ \/ /\ meterProvider' =
                [constructed |-> TRUE,
                 resource |-> resources.attributes,
                 resolved |-> resources.resolved,
                 exportIntervalMillis |-> EXPORT_INTERVAL_MILLIS,
                 exportTimeoutMillis |-> EXPORT_TIMEOUT_MILLIS]
          /\ pc' = "get_meter"
          /\ UNCHANGED thrown
       \/ /\ Throw("provider")
          /\ UNCHANGED meterProvider
    /\ UNCHANGED <<env, identityVars, awaited, top, exporter, meter, created,
                   requestCounter, backgroundCounter, trafficVars,
                   processVars, log>>

\* line 112: const meter = meterProvider.getMeter(COUNTERS_PREFIX)
GetMeter ==
    /\ pc = "get_meter" /\ CanRun
    /\ \/ /\ meter' = TRUE
          /\ pc' = "create_request"
          /\ UNCHANGED thrown
       \/ /\ Throw("get_meter")
          /\ UNCHANGED meter
    /\ UNCHANGED <<env, identityVars, awaited, top, exporter, meterProvider,
                   created, requestCounter, backgroundCounter, trafficVars,
                   processVars, log>>

\* Line 114 creating and binding the background counter first.
CreateRequestCounterBindsBackground ==
    /\ pc = "create_request" /\ CanRun
    /\ \/ /\ created' = Append(created, BACKGROUND_COUNTER_NAME)
          /\ backgroundCounter' = BACKGROUND_COUNTER_NAME
          /\ pc' = "create_background"
          /\ UNCHANGED thrown
       \/ /\ Throw("create_request")
          /\ UNCHANGED <<created, backgroundCounter>>
    /\ UNCHANGED <<env, identityVars, awaited, top, exporter, meterProvider,
                   meter, requestCounter, trafficVars, processVars, log>>

\* line 114: requestCounter = meter.createCounter(PREFIX + "request-counter")
CreateRequestCounter ==
    /\ pc = "create_request" /\ CanRun
    /\ \/ /\ created' = Append(created, REQUEST_COUNTER_NAME)
          /\ requestCounter' = REQUEST_COUNTER_NAME
          /\ pc' = "create_background"
          /\ UNCHANGED thrown
       \/ /\ Throw("create_request")
          /\ UNCHANGED <<created, requestCounter>>
    /\ UNCHANGED <<env, identityVars, awaited, top, exporter, meterProvider,
                   meter, backgroundCounter, trafficVars, processVars, log>>

\* Line 116 creating the background counter under the request counter's
\* name.
CreateBackgroundCounterSameName ==
    /\ pc = "create_background" /\ CanRun
    /\ \/ /\ created' = Append(created, REQUEST_COUNTER_NAME)
          /\ backgroundCounter' = REQUEST_COUNTER_NAME
          /\ pc' = "log_ready"
          /\ UNCHANGED thrown
       \/ /\ Throw("create_background")
          /\ UNCHANGED <<created, backgroundCounter>>
    /\ UNCHANGED <<env, identityVars, awaited, top, exporter, meterProvider,
                   meter, requestCounter, trafficVars, processVars, log>>

\* line 116: backgroundCounter = meter.createCounter(PREFIX + "background-counter")
CreateBackgroundCounter ==
    /\ pc = "create_background" /\ CanRun
    /\ \/ /\ created' = Append(created, BACKGROUND_COUNTER_NAME)
          /\ backgroundCounter' = BACKGROUND_COUNTER_NAME
          /\ pc' = "log_ready"
          /\ UNCHANGED thrown
       \/ /\ Throw("create_background")
          /\ UNCHANGED <<created, backgroundCounter>>
    /\ UNCHANGED <<env, identityVars, awaited, top, exporter, meterProvider,
                   meter, requestCounter, trafficVars, processVars, log>>

\* line 118: logger.info('Metrics initialized, counters ready'); the async
\* function returns and its promise is fulfilled.
LogCountersReady ==
    /\ pc = "log_ready" /\ CanRun
    /\ Logged("info", "Metrics initialized, counters ready")
    /\ pc' = "returned"
    /\ UNCHANGED <<env, identityVars, awaited, top, thrown, pipelineVars,
                   trafficVars, processVars>>

\* ------------------------------------- the promise chain, lines 121-132
\* lines 122-125: the then callback defines backgroundTask and starts the
\* interval timer.
StartBackgroundTask ==
    /\ pc = "returned" /\ top = "loaded" /\ exits = <<>>
    /\ timerStarted' = TRUE
    /\ pc' = "then_log"
    /\ UNCHANGED <<env, identityVars, awaited, top, thrown, pipelineVars,
                   trafficVars, httpRegistered, exits, log>>

\* line 127: logger.info('Background task started ...')
LogBackgroundStarted ==
    /\ pc = "then_log" /\ top = "loaded" /\ exits = <<>>
    /\ Logged("info", "Background task started")
    /\ pc' = "done"
    /\ UNCHANGED <<env, identityVars, awaited, top, thrown, pipelineVars,
                   trafficVars, processVars>>

\* line 130: the catch callback logs the exception at error severity.
LogFatal ==
    /\ pc = "rejected" /\ top = "loaded" /\ exits = <<>>
    /\ Logged("error", thrown)
    /\ pc' = "catch_exit"
    /\ UNCHANGED <<env, identityVars, awaited, top, thrown, pipelineVars,
                   trafficVars, processVars>>

\* The catch callback calling initMetrics again instead of exiting.
ExitRetrying ==
    /\ pc = "catch_exit" /\ top = "loaded" /\ exits = <<>>
    /\ pc' = "start"
    /\ thrown' = "none"
    /\ UNCHANGED <<env, identityVars, awaited, top, pipelineVars,
                   trafficVars, processVars, log>>

\* line 131: process.exit(1)
Exit ==
    /\ pc = "catch_exit" /\ top = "loaded" /\ exits = <<>>
    /\ exits' = Append(exits, EXIT_STATUS)
    /\ pc' = "exited"
    /\ UNCHANGED <<env, identityVars, awaited, top, thrown, pipelineVars,
                   trafficVars, httpRegistered, timerStarted, log>>

\* ------------------------------------------ module top level, lines 121-141
\* The top level starting the interval timer itself, beside the chain,
\* instead of leaving it to the then callback.
AttachHandlersStartingTimer ==
    /\ top = "init_call"
    /\ pc \in AwaitPcs \cup {"rejected"}
    /\ top' = "register_http"
    /\ timerStarted' = TRUE
    /\ UNCHANGED <<env, identityVars, awaited, pc, thrown, pipelineVars,
                   trafficVars, httpRegistered, exits, log>>

\* lines 121, 129: initMetrics() has returned its promise to the top level
\* (it is suspended on an await, or it has thrown); then and catch are
\* attached to it.
AttachHandlers ==
    /\ top = "init_call"
    /\ pc \in AwaitPcs \cup {"rejected"}
    /\ top' = "register_http"
    /\ UNCHANGED <<env, identityVars, awaited, pc, thrown, pipelineVars,
                   trafficVars, processVars, log>>

\* line 135: functions.http('handleHttpReq', handler)
RegisterHttp ==
    /\ top = "register_http"
    /\ httpRegistered' = TRUE
    /\ top' = "log_http_ready"
    /\ UNCHANGED <<env, identityVars, awaited, pc, thrown, pipelineVars,
                   trafficVars, timerStarted, exits, log>>

\* line 141: logger.info('HTTP handler ready.')
LogHttpReady ==
    /\ top = "log_http_ready"
    /\ Logged("info", "HTTP handler ready.")
    /\ top' = "loaded"
    /\ UNCHANGED <<env, identityVars, awaited, pc, thrown, pipelineVars,
                   trafficVars, processVars>>

\* ------------------------------------------------------- the environment
\* The collaborator's asynchronous work completes: the promise that
\* initMetrics awaits is fulfilled or rejected.  It may also never happen.
Settle ==
    /\ Quiescent
    /\ pc \in AwaitPcs /\ awaited = "pending"
    /\ awaited' \in {"fulfilled", "rejected"}
    /\ UNCHANGED <<env, identityVars, pc, top, thrown, pipelineVars,
                   trafficVars, processVars, log>>

\* counter.add(n) on a module-level handle: on an unbound handle the
\* property access on undefined throws a TypeError and nothing is added.
CounterAdd(handle, n) ==
    IF handle = Undefined
    THEN /\ unboundAdds' = unboundAdds + 1
         /\ UNCHANGED adds
    ELSE /\ adds' = [adds EXCEPT ![handle] = @ + n]
         /\ UNCHANGED unboundAdds

\* The HTTP handler recording the call in the shared attribute mapping.
HandleHttpReqTaggingAttributes ==
    /\ httpRegistered /\ Quiescent
    /\ requests < MaxRequests
    /\ requests' = requests + 1
    /\ Logged("info", "handling HTTP request")
    /\ RESOURCE_ATTRIBUTES' = Put(RESOURCE_ATTRIBUTES, "http.method", "GET")
    /\ CounterAdd(requestCounter, 1)
    /\ okResponses' = IF requestCounter = Undefined
                      THEN okResponses
                      ELSE okResponses + 1
    /\ UNCHANGED <<env, gcpResources, resources, awaited, pc, top, thrown,
                   pipelineVars, ticks, processVars>>

\* lines 135-139: the HTTP handler.  An exception of requestCounter.add
\* leaves the handler before res.send('OK').
HandleHttpReq ==
    /\ httpRegistered /\ Quiescent
    /\ requests < MaxRequests
    /\ requests' = requests + 1
    /\ Logged("info", "handling HTTP request")
    /\ CounterAdd(requestCounter, 1)
    /\ okResponses' = IF requestCounter = Undefined
                      THEN okResponses
                      ELSE okResponses + 1
    /\ UNCHANGED <<env, identityVars, awaited, pc, top, thrown, pipelineVars,
                   ticks, processVars>>

\* backgroundTask adding to the request counter's handle.
BackgroundTaskOnRequestCounter ==
    /\ timerStarted /\ Quiescent
    /\ ticks < MaxTicks
    /\ ticks' = ticks + 1
    /\ CounterAdd(requestCounter, 1)
    /\ UNCHANGED <<env, identityVars, awaited, pc, top, thrown, pipelineVars,
                   requests, okResponses, processVars, log>>

\* lines 122-124: one firing of the interval timer.
BackgroundTask ==
    /\ timerStarted /\ Quiescent
    /\ ticks < MaxTicks
    /\ ticks' = ticks + 1
    /\ CounterAdd(backgroundCounter, 1)
    /\ UNCHANGED <<env, identityVars, awaited, pc, top, thrown, pipelineVars,
                   requests, okResponses, processVars, log>>

\* ------------------------------------- the diagnostic bridge, src/logger.js
\* The methods of DiagToBunyanLogger, and what the SDK reports with them.
DiagLevels == {"verbose", "debug", "info", "warn", "error"}
DiagMessages == {"exporter failed"}
\* The rest arguments of a report: one object, {code: 7}.  An object is the
\* sequence of its properties in insertion order.
DiagArgs == << <<[key |-> "code", value |-> 7]>> >>

\* JSON.stringify of an object with number-valued properties, and of the
\* array of the rest arguments.
RECURSIVE JsonProperties(_)
JsonProperties(o) ==
    IF o = <<>> THEN ""
    ELSE "\"" \o Head(o).key \o "\":" \o ToString(Head(o).value)
         \o (IF Tail(o) = <<>> THEN "" ELSE "," \o JsonProperties(Tail(o)))
JsonObject(o) == "{" \o JsonProperties(o) \o "}"
RECURSIVE JsonElements(_)
JsonElements(args) ==
    IF args = <<>> THEN ""
    ELSE JsonObject(Head(args))
         \o (IF Tail(args) = <<>> THEN "" ELSE "," \o JsonElements(Tail(args)))
StringifyArgs(args) == "[" \o JsonElements(args) \o "]"

\* The logger method each bridge method calls: verbose goes to trace, the
\* others to the method of the same name.
BunyanLevel(d) == IF d = "verbose" THEN "trace" ELSE d

\* DiagToBunyanLogger.<d>(message, ...args):
\* logger.<level>('otel: ' + message, JSON.stringify(args))
DiagToBunyanEntry(d, message, args) ==
    [level |-> BunyanLevel(d), msg |-> "otel: " \o message,
     payload |-> StringifyArgs(args)]

\* diag.setLogger(..., {logLevel: DiagLogLevel.DEBUG}): the diag API hands
\* on every report but the verbose ones.
DiagPasses(d) == d # "verbose"

\* The messages the bridge can produce.
OtelMessages == {"otel: " \o m : m \in DiagMessages}

\* Calls of the logger that came through the bridge.
DiagEntriesIn(l) == Cardinality({i \in DOMAIN l : l[i].msg \in OtelMessages})

\* initMetrics is inside a call into the SDK: lines 65, 67, 93, 94, 97,
\* 99-108, 112, 114 and 116.
SdkCallPcs == {"detect", "wait_detect", "merge", "wait_merged", "exporter",
               "provider", "get_meter", "create_request",
               "create_background"}

\* SDK code is running: inside a call of initMetrics into it, or as the
\* SDK's own background work (detection, periodic export) while the event
\* loop is otherwise idle.  The call of line 67 is made only when the
\* detected resource has a waitForAsyncAttributes (line 66).
SdkRunning ==
    \/ Quiescent
    \/ /\ CanRun
       /\ pc \in SdkCallPcs
       /\ pc = "wait_detect" => gcpResources.waitForAsyncAttributes

\* The SDK reports something through the diag API: the registered
\* DiagToBunyanLogger forwards it to the logger, unless the API's level
\* filter drops it.
DiagReport ==
    /\ SdkRunning
    /\ DiagEntriesIn(log) < MaxDiagCalls
    /\ \E d \in DiagLevels, message \in DiagMessages :
          log' = IF DiagPasses(d)
                 THEN Append(log, DiagToBunyanEntry(d, message, DiagArgs))
                 ELSE log
    /\ UNCHANGED <<env, identityVars, awaited, pc, top, thrown, pipelineVars,
                   trafficVars, processVars>>

\* ---------------------------------------------------------- specification
InitMetricsStep ==
    \/ LogInitializing \/ K8sCheck \/ Detect \/ AwaitDetect \/ ResumeDetect
    \/ GcfCheck \/ Merge \/ AwaitMerged \/ ResumeMerged \/ LogResources
    \/ NewExporter \/ NewMeterProvider \/ GetMeter
    \/ CreateRequestCounter \/ CreateBackgroundCounter \/ LogCountersReady

ChainStep == StartBackgroundTask \/ LogBackgroundStarted \/ LogFatal \/ Exit

TopLevelStep == AttachHandlers \/ RegisterHttp \/ LogHttpReady

Next ==
    \/ InitMetricsStep
    \/ ChainStep
    \/ TopLevelStep
    \/ Settle
    \/ HandleHttpReq
    \/ BackgroundTask
    \/ DiagReport

Spec == Init /\ [][Next]_vars

\* The event loop runs every piece of JavaScript that is ready to run: the
\* rest of the module's top level, a continuation of initMetrics whose
\* promise has settled, the then or catch callback.  Settlement of the
\* awaited promise is the collaborator's part: fairness of Settle says
\* that the pending attributes do resolve (or reject) in the end.
Fairness ==
    /\ WF_vars(InitMetricsStep)
    /\ WF_vars(ChainStep)
    /\ WF_vars(TopLevelStep)
    /\ WF_vars(Settle)

LiveSpec == Spec /\ Fairness

\* ------------------------------------------------------------ vocabulary
\* The collaborator calls of initMetrics that may throw or reject.
ThrowPoints == {"detect", "await_detect", "merge", "await_merged", "exporter",
                "provider", "get_meter", "create_request", "create_background"}

Bound(handle) == handle # Undefined

\* Exactly one of the two module-level handles is bound.
PartialRegistration == Bound(requestCounter) # Bound(backgroundCounter)

\* Number of log entries of a level with a message.
LogCount(level, msg) ==
    Cardinality({i \in DOMAIN log : log[i].level = level /\ log[i].msg = msg})

\* The orchestration check of lines 50-63 has run.
K8sChecked == pc \notin {"start", "k8s_check"}

\* The managed-function check of lines 70-91 has run.
GcfChecked ==
    /\ pc \notin {"start", "k8s_check", "detect", "wait_detect",
                  "await_detect", "gcf_check"}
    /\ thrown \notin {"detect", "await_detect"}

InKubernetes == Truthy(env["KUBERNETES_SERVICE_HOST"])
WorkaroundActive ==
    Truthy(env["FUNCTION_TARGET"]) /\ Truthy(env["USE_OTEL_GCF_WORKAROUND"])

\* ------------------------------------------------------------------ claims

\* C1: the exporter, the provider, the meter and both counters exist only
\* after the await on the merged resource has completed: in every state
\* where any of them exists the merged resource is resolved, nothing is
\* being awaited, and the provider was built from a resolved identity.
C1_ResolvedBeforeProvider ==
    (\/ exporter \/ meterProvider.constructed \/ meter \/ created # <<>>
     \/ Bound(requestCounter) \/ Bound(backgroundCounter))
    => /\ resources.present /\ resources.resolved
       /\ awaited = "none"
       /\ meterProvider.constructed => meterProvider.resolved

\* C1 witness: initMetrics was really suspended on line 94 (the module had
\* loaded and the handler was registered) and the provider was then built.
C1_Witness ==
    /\ meterProvider.constructed /\ meterProvider.resolved
    /\ Bound(backgroundCounter)
    /\ httpRegistered

\* C2 (as claimed): once a collaborator has thrown, the process exits at
\* most once, exactly once when the chain has run to its end, and no
\* counter was created or bound.
C2_FatalOnceNoCounter ==
    thrown # "none"
    => /\ Len(exits) <= 1
       /\ pc = "exited" => exits = <<EXIT_STATUS>>
       /\ created = <<>>
       /\ ~Bound(requestCounter) /\ ~Bound(backgroundCounter)

\* C3: after bootstrap every tick adds exactly 1 to the background counter
\* and nothing to the request counter, every request adds exactly 1 to the
\* request counter and nothing to the background counter, the background
\* counter's additions always equal the number of ticks, and the counters
\* change by no other step.
C3_ExactAdditions ==
    [][/\ adds'[BACKGROUND_COUNTER_NAME] = ticks'
       /\ ticks' # ticks =>
            /\ ticks' = ticks + 1 /\ pc = "done"
            /\ adds'[BACKGROUND_COUNTER_NAME] = adds[BACKGROUND_COUNTER_NAME] + 1
            /\ adds'[REQUEST_COUNTER_NAME] = adds[REQUEST_COUNTER_NAME]
       /\ (requests' # requests /\ pc = "done") =>
            /\ requests' = requests + 1
            /\ adds'[REQUEST_COUNTER_NAME] = adds[REQUEST_COUNTER_NAME] + 1
            /\ adds'[BACKGROUND_COUNTER_NAME] = adds[BACKGROUND_COUNTER_NAME]
       /\ adds' # adds => (ticks' # ticks \/ requests' # requests)
      ]_vars

\* C3 witness: two ticks and two requests, all counted, after bootstrap.
C3_Witness ==
    /\ pc = "done"
    /\ ticks >= 2 /\ adds[BACKGROUND_COUNTER_NAME] >= 2
    /\ adds[REQUEST_COUNTER_NAME] >= 2

\* C4 (as claimed): add is never attempted on an unbound counter handle.
C4_NoAddOnUnbound == unboundAdds = 0

\* C5 (as claimed): every invocation of the request handler has added 1 to
\* the request counter and has sent the 'OK' response.
C5_EveryRequestAnswered ==
    /\ okResponses = requests
    /\ adds[REQUEST_COUNTER_NAME] = requests

\* C6 (as claimed): the writers can run with a bound handle only after
\* bootstrap has returned, and neither a tick, a request nor the fatal
\* handler runs while exactly one of the two handles is bound.
C6_NoPartialRegistration ==
    /\ (Quiescent /\ (Bound(requestCounter) \/ Bound(backgroundCounter)))
          => pc = "done"
    /\ Quiescent => ~PartialRegistration
    /\ pc \in {"catch_exit", "exited"} => ~PartialRegistration

\* C7: the identity handed to the metrics provider holds the three static
\* keys with their static values, whatever the environment and whatever
\* the detector reported for those keys.
C7_StaticKeysWin ==
    meterProvider.constructed
    => \A k \in DOMAIN STATIC_ATTRIBUTES :
          /\ k \in DOMAIN meterProvider.resource
          /\ meterProvider.resource[k] = STATIC_ATTRIBUTES[k]

\* C7 witness: the detector reported a service name of its own and the
\* provider received the static one.
C7_Witness ==
    /\ meterProvider.constructed
    /\ Get(gcpResources.attributes, SERVICE_NAME) = "detected-svc"
    /\ meterProvider.resource[SERVICE_NAME] = "counters-test"

\* C8: under Kubernetes, once the orchestration check has run: with a pod
\* name set, the explicit, the merged and the provider's identity carry the
\* pod-name key with exactly that value; with no pod name, the explicit
\* identity has no pod-name key, exactly one pod-name warning is logged,
\* and the process exits only if a collaborator call has thrown.
C8_PodName ==
    (K8sChecked /\ InKubernetes)
    => IF Truthy(env["K8S_POD_NAME"])
       THEN /\ Get(RESOURCE_ATTRIBUTES, K8S_POD_NAME_KEY) = env["K8S_POD_NAME"]
            /\ resources.present =>
                 Get(resources.attributes, K8S_POD_NAME_KEY) = env["K8S_POD_NAME"]
            /\ meterProvider.constructed =>
                 Get(meterProvider.resource, K8S_POD_NAME_KEY) = env["K8S_POD_NAME"]
            /\ LogCount("warn", "K8S_POD_NAME not set") = 0
       ELSE /\ K8S_POD_NAME_KEY \notin DOMAIN RESOURCE_ATTRIBUTES
            /\ LogCount("warn", "K8S_POD_NAME not set") = 1
            /\ thrown \in ThrowPoints \cup {"none"}
            /\ exits # <<>> => thrown \in ThrowPoints
            /\ pc = "detect" => thrown = "none"

\* C8 witness: under Kubernetes with no pod name, the warning was logged and
\* initialization ran to the end with the process alive.
C8_Witness ==
    /\ InKubernetes /\ env["K8S_POD_NAME"] = Undefined
    /\ LogCount("warn", "K8S_POD_NAME not set") = 1
    /\ pc = "done" /\ exits = <<>>

\* C9: with the function target and the opt-in flag both set, the identity
\* handed to the provider has the platform key equal to generic_task,
\* whatever platform the detector reported.
C9_GenericTaskPlatform ==
    (meterProvider.constructed /\ WorkaroundActive)
    => Get(meterProvider.resource, CLOUD_PLATFORM) = GENERIC_TASK

\* C9 witness: the detector reported another platform and was overridden.
C9_Witness ==
    /\ meterProvider.constructed /\ WorkaroundActive
    /\ Get(gcpResources.attributes, CLOUD_PLATFORM) = "gcp_cloud_functions"
    /\ Get(gcpResources.attributes, FAAS_ID) = Undefined
    /\ meterProvider.resource[CLOUD_PLATFORM] = GENERIC_TASK

\* C10: with the function target and the opt-in flag both set, once the
\* managed-function check has run: a non-empty detected function-instance
\* identifier v is the instance-id of the explicit, the merged and the
\* provider's identity; an absent or empty one leaves the instance-id key
\* out of all three, logs exactly one warning, and initialization goes on
\* to the merge (a later failure comes from a later collaborator call).
C10_InstanceId ==
    (GcfChecked /\ WorkaroundActive)
    => LET v == Get(gcpResources.attributes, FAAS_ID)
       IN  IF v # Undefined /\ v # ""
           THEN /\ Get(RESOURCE_ATTRIBUTES, SERVICE_INSTANCE_ID) = v
                /\ resources.present =>
                     Get(resources.attributes, SERVICE_INSTANCE_ID) = v
                /\ meterProvider.constructed =>
                     Get(meterProvider.resource, SERVICE_INSTANCE_ID) = v
                /\ LogCount("warn", "FAAS_ID not set") = 0
           ELSE /\ SERVICE_INSTANCE_ID \notin DOMAIN RESOURCE_ATTRIBUTES
                /\ SERVICE_INSTANCE_ID \notin DOMAIN resources.attributes
                /\ SERVICE_INSTANCE_ID \notin DOMAIN meterProvider.resource
                /\ LogCount("warn", "FAAS_ID not set") = 1
                /\ thrown \in {"none", "merge", "await_merged", "exporter",
                               "provider", "get_meter", "create_request",
                               "create_background"}
                /\ pc = "merge" => thrown = "none" /\ exits = <<>>

\* C10 witness: the detector reported an empty identifier, the warning was
\* logged, and the provider was built without an instance-id.
C10_Witness ==
    /\ WorkaroundActive
    /\ Get(gcpResources.attributes, FAAS_ID) = ""
    /\ LogCount("warn", "FAAS_ID not set") = 1
    /\ meterProvider.constructed
    /\ SERVICE_INSTANCE_ID \notin DOMAIN meterProvider.resource

\* The identity `merged` is the static entries plus what the detector
\* supplied for every other key.
StaticPlusDetected(merged) ==
    /\ DOMAIN merged = DOMAIN STATIC_ATTRIBUTES \cup DOMAIN gcpResources.attributes
    /\ \A k \in DOMAIN merged :
          merged[k] = IF k \in DOMAIN STATIC_ATTRIBUTES
                      THEN STATIC_ATTRIBUTES[k]
                      ELSE gcpResources.attributes[k]

DefaultWarnings == LogCount("warn", "Using Default Cloud Functions Behavior")

\* C11: the 'default behavior' warning is logged exactly once by the
\* managed-function check when the function target or the opt-in flag is
\* not set, and never otherwise, and then the explicit identity gets
\* neither the platform key nor the instance-id key.  With neither the
\* orchestrator signal nor the function target set, the explicit identity
\* stays the three static entries, the merged and the provider's identity
\* are those plus the detector's entries (the platform keeps its detected
\* value), the process exits only if a collaborator call has thrown, and
\* the first tick adds 1 to the background counter.
C11_DefaultBehaviour ==
    /\ DefaultWarnings = IF GcfChecked /\ ~WorkaroundActive THEN 1 ELSE 0
    /\ ~WorkaroundActive =>
          /\ CLOUD_PLATFORM \notin DOMAIN RESOURCE_ATTRIBUTES
          /\ SERVICE_INSTANCE_ID \notin DOMAIN RESOURCE_ATTRIBUTES
    /\ (~InKubernetes /\ ~Truthy(env["FUNCTION_TARGET"])) =>
          /\ RESOURCE_ATTRIBUTES = STATIC_ATTRIBUTES
          /\ resources.present => StaticPlusDetected(resources.attributes)
          /\ meterProvider.constructed =>
                /\ StaticPlusDetected(meterProvider.resource)
                /\ Get(meterProvider.resource, CLOUD_PLATFORM) =
                      Get(gcpResources.attributes, CLOUD_PLATFORM)
          /\ exits # <<>> => thrown \in ThrowPoints
          /\ ticks = 1 => adds[BACKGROUND_COUNTER_NAME] = 1

\* C11 witness: neither signal set, the detector reported a platform, the
\* warning was logged, bootstrap succeeded and the first tick was counted.
C11_Witness ==
    /\ ~InKubernetes /\ env["FUNCTION_TARGET"] = Undefined
    /\ pc = "done" /\ ticks = 1 /\ adds[BACKGROUND_COUNTER_NAME] = 1
    /\ DefaultWarnings = 1
    /\ Get(gcpResources.attributes, CLOUD_PLATFORM) = "gcp_cloud_functions"
    /\ Get(meterProvider.resource, CLOUD_PLATFORM) = "gcp_cloud_functions"

\* C12: the interval timer is started only when bootstrap has succeeded
\* (both counters created and bound, nothing thrown, the process alive),
\* never while initMetrics is suspended or after it failed; once started
\* it stays started; a tick happens only with the timer started and adds
\* exactly 1 to the background counter.
C12_TimerAfterBootstrap ==
    [][/\ timerStarted' =>
            /\ Bound(requestCounter') /\ Bound(backgroundCounter')
            /\ created' = <<REQUEST_COUNTER_NAME, BACKGROUND_COUNTER_NAME>>
            /\ thrown' = "none" /\ exits' = <<>>
            /\ pc' \in {"then_log", "done"}
       /\ timerStarted => timerStarted'
       /\ ticks' # ticks =>
            /\ timerStarted
            /\ ticks' = ticks + 1
            /\ adds'[BACKGROUND_COUNTER_NAME] = adds[BACKGROUND_COUNTER_NAME] + 1
            /\ unboundAdds' = unboundAdds
      ]_vars

\* C12 witness: the timer runs after a successful bootstrap and has ticked.
C12_Witness ==
    /\ timerStarted /\ pc = "done"
    /\ ticks >= 1 /\ adds[BACKGROUND_COUNTER_NAME] = ticks
    /\ LogCount("info", "Background task started") = 1

\* Bootstrap has succeeded and the background driver runs.
CountersReadyAndDriven ==
    /\ timerStarted
    /\ Bound(requestCounter) /\ Bound(backgroundCounter)
    /\ LogCount("info", "Metrics initialized, counters ready") = 1

\* C13: no failure ever arises from the three warning conditions (what
\* rejects initMetrics is always a collaborator call that threw or an
\* awaited promise that rejected), and when the awaited promises settle
\* every execution in which no collaborator throws reaches the
\* counters-ready state with the background driver started, whatever the
\* environment.
C13_WarningsNotFatal ==
    /\ [](thrown \in ThrowPoints \cup {"none"})
    /\ <>(thrown # "none" \/ CountersReadyAndDriven)

\* C13 witness: the pod-name warning and the function-instance warning were
\* both logged and the driver was started all the same.
C13_Witness ==
    /\ LogCount("warn", "K8S_POD_NAME not set") = 1
    /\ LogCount("warn", "FAAS_ID not set") = 1
    /\ CountersReadyAndDriven
    /\ thrown = "none" /\ exits = <<>>

\* Number of entries of a log made by the catch callback's logger.error(e):
\* error severity, and the message is the exception of a collaborator.
\* Error reports of the telemetry library come through the diag bridge
\* with an "otel: " message and are not among them.
FatalEntriesIn(l) ==
    Cardinality({i \in DOMAIN l :
                    l[i].level = "error" /\ l[i].msg \in ThrowPoints})

\* C14: on the fatal path the exception is logged exactly once at error
\* severity (whatever the telemetry library itself reported through the
\* diag bridge), and it is logged before the one process.exit, whose status
\* is non-zero; the failure is terminal: once a collaborator has thrown, the
\* recorded failure, the identity and the metrics pipeline never change
\* again and the chain only moves on to the catch callback and the exit;
\* initMetrics is never entered a second time; nothing runs after the exit.
C14_FatalOnceNoRetry ==
    [][/\ FatalEntriesIn(log') <= 1
       /\ FatalEntriesIn(log') = 1 => thrown' # "none"
       /\ exits' # exits =>
            /\ exits = <<>> /\ exits' = <<EXIT_STATUS>> /\ EXIT_STATUS # 0
            /\ FatalEntriesIn(log) = 1
            /\ log[Len(log)] = Entry("error", thrown)
       /\ thrown # "none" =>
            /\ thrown' = thrown
            /\ UNCHANGED <<identityVars, pipelineVars, awaited, timerStarted>>
            /\ pc' \in {"rejected", "catch_exit", "exited"}
       /\ pc # "start" => pc' # "start"
       /\ exits # <<>> => UNCHANGED vars
      ]_vars

\* C14 witness: the exporter reported an error through the diag bridge and
\* then its constructor threw; the exception was logged once, last, and the
\* process exited with status 1.
C14_Witness ==
    /\ thrown = "exporter" /\ pc = "exited"
    /\ exits = <<EXIT_STATUS>>
    /\ FatalEntriesIn(log) = 1
    /\ log[Len(log)] = Entry("error", "exporter")
    /\ \E i \in DOMAIN log :
          /\ log[i].level = "error"
          /\ log[i].msg = "otel: exporter failed"
          /\ log[i].payload = "[{\"code\":7}]"

\* C15: no counter name is ever passed to createCounter twice; createCounter
\* calls are never undone; when initMetrics has returned, exactly the
\* request counter and the background counter have been created, once
\* each; a bound handle is the counter of its own name and no later step
\* (tick, request, or any other) rebinds or unbinds it.
C15_CountersCreatedOnce ==
    [][/\ \A i, j \in DOMAIN created' : created'[i] = created'[j] => i = j
       /\ Len(created') >= Len(created)
       /\ SubSeq(created', 1, Len(created)) = created
       /\ pc' \in {"returned", "then_log", "done"} =>
            created' = <<REQUEST_COUNTER_NAME, BACKGROUND_COUNTER_NAME>>
       /\ Bound(requestCounter) => requestCounter' = requestCounter
       /\ Bound(backgroundCounter) => backgroundCounter' = backgroundCounter
       /\ Bound(requestCounter') => requestCounter' = REQUEST_COUNTER_NAME
       /\ Bound(backgroundCounter') =>
            backgroundCounter' = BACKGROUND_COUNTER_NAME
      ]_vars

\* C15 witness: both counters were created once and are still bound to the
\* same handles after requests and ticks have run.
C15_Witness ==
    /\ pc = "done"
    /\ created = <<REQUEST_COUNTER_NAME, BACKGROUND_COUNTER_NAME>>
    /\ requestCounter = REQUEST_COUNTER_NAME
    /\ backgroundCounter = BACKGROUND_COUNTER_NAME
    /\ okResponses >= 1 /\ ticks >= 1

\* Warnings with a message in a log.
WarnedIn(l, msg) ==
    Cardinality({i \in DOMAIN l : l[i].level = "warn" /\ l[i].msg = msg})

\* The orchestration check has left its mark: the pod name was assigned or
\* the pod-name warning was logged.
PodNameHandled(attrs, l) ==
    \/ K8S_POD_NAME_KEY \in DOMAIN attrs
    \/ WarnedIn(l, "K8S_POD_NAME not set") > 0

\* The managed-function check has left its mark.
FunctionHandled(attrs, l) ==
    \/ CLOUD_PLATFORM \in DOMAIN attrs
    \/ SERVICE_INSTANCE_ID \in DOMAIN attrs
    \/ WarnedIn(l, "FAAS_ID not set") > 0
    \/ WarnedIn(l, "Using Default Cloud Functions Behavior") > 0

\* C16 (as claimed): the pod name is assigned, or the pod-name warning is
\* logged, only after the detector has been invoked and its pending
\* attributes have resolved.
C16_OrchestrationAfterDetection ==
    PodNameHandled(RESOURCE_ATTRIBUTES, log)
    => gcpResources.present /\ gcpResources.resolved

\* C16 (amended): the orchestration check runs before the detector is
\* invoked: its effect appears while no detected resource exists yet, and
\* under Kubernetes it has appeared by the time the detector is invoked.
\* The managed-function check runs only after the detector was invoked and
\* its pending attributes have resolved.
C16_OrchestrationBeforeDetection ==
    [][/\ (PodNameHandled(RESOURCE_ATTRIBUTES', log')
             /\ ~PodNameHandled(RESOURCE_ATTRIBUTES, log))
          => ~gcpResources.present /\ ~gcpResources'.present
       /\ (InKubernetes /\ pc = "detect" /\ pc' # pc)
          => PodNameHandled(RESOURCE_ATTRIBUTES, log)
       /\ FunctionHandled(RESOURCE_ATTRIBUTES', log')
          => gcpResources'.present /\ gcpResources'.resolved
      ]_vars

\* C16 witness: the pod-name warning is on record while initMetrics is
\* still suspended on the detector's unresolved attributes.
C16_Witness ==
    /\ InKubernetes
    /\ WarnedIn(log, "K8S_POD_NAME not set") = 1
    /\ pc = "await_detect" /\ awaited = "pending"
    /\ gcpResources.present /\ ~gcpResources.resolved
    /\ requests >= 1

\* initMetrics is suspended on a promise that has not settled.
Blocked == pc \in AwaitPcs /\ awaited = "pending"

\* C17: while the awaited promise (the detector's, or the merged
\* resource's) is pending, no step moves initMetrics: it stays at its
\* await until the promise settles, there is no timeout, and in the
\* meantime no counter is created or bound, the timer is not started, no
\* tick occurs, nothing is thrown, no exception is logged and the process
\* does not exit.  A promise that never settles thus blocks it forever.
C17_BlockedWhilePending ==
    [][Blocked =>
          /\ pc' = pc
          /\ awaited' \in {"pending", "fulfilled", "rejected"}
          /\ UNCHANGED <<identityVars, pipelineVars, thrown, timerStarted,
                         ticks, exits>>
          /\ created' = <<>>
          /\ ~Bound(requestCounter') /\ ~Bound(backgroundCounter')
          /\ ~timerStarted' /\ ticks' = 0
          /\ thrown' = "none" /\ exits' = <<>> /\ FatalEntriesIn(log') = 0
      ]_vars

\* C17 witness: initMetrics is still blocked on the merged resource after
\* two requests have come and gone.
C17_Witness ==
    /\ pc = "await_merged" /\ awaited = "pending"
    /\ requests >= 2
    /\ created = <<>> /\ ~timerStarted /\ exits = <<>>

\* C18: the explicit mapping starts as the three static entries; it is
\* changed only by the orchestration check and the managed-function check
\* of initMetrics, before the merge; from the merge on no step (tick,
\* request, catch callback or any other) changes it, and the merged
\* identity keeps carrying its entries.
C18_ExplicitIdentityFrozen ==
    [][/\ pc = "start" => RESOURCE_ATTRIBUTES = STATIC_ATTRIBUTES
       /\ RESOURCE_ATTRIBUTES' # RESOURCE_ATTRIBUTES =>
            /\ pc \in {"k8s_check", "gcf_check"}
            /\ ~resources.present /\ ~resources'.present
            /\ ~meterProvider.constructed
            /\ requests' = requests /\ ticks' = ticks
       /\ (resources.present \/ pc \in {"merge", "rejected", "catch_exit"})
            => RESOURCE_ATTRIBUTES' = RESOURCE_ATTRIBUTES
       /\ resources'.present =>
            \A k \in DOMAIN RESOURCE_ATTRIBUTES' :
                Get(resources'.attributes, k) = RESOURCE_ATTRIBUTES'[k]
      ]_vars

\* C18 witness: an explicit mapping that was extended during initialization
\* is still the one the provider was given after requests and ticks.
C18_Witness ==
    /\ pc = "done" /\ okResponses >= 1 /\ ticks >= 1
    /\ K8S_POD_NAME_KEY \in DOMAIN RESOURCE_ATTRIBUTES
    /\ SERVICE_INSTANCE_ID \in DOMAIN RESOURCE_ATTRIBUTES
    /\ \A k \in DOMAIN RESOURCE_ATTRIBUTES :
          Get(meterProvider.resource, k) = RESOURCE_ATTRIBUTES[k]

\* The HTTP handler is registered and announced, the module has loaded.
HandlerReady ==
    /\ httpRegistered /\ top = "loaded"
    /\ LogCount("info", "HTTP handler ready.") = 1

\* C19: whenever a counter has been created or bound, the HTTP handler was
\* already registered and 'HTTP handler ready.' logged, and initMetrics had
\* been suspended on the merged resource; and every execution reaches a
\* state where the handler is ready while neither counter is bound.
C19_HandlerBeforeCounters ==
    /\ []((created # <<>> \/ Bound(requestCounter) \/ Bound(backgroundCounter))
            => HandlerReady /\ resources.resolved)
    /\ <>(HandlerReady /\ ~Bound(requestCounter) /\ ~Bound(backgroundCounter))

\* C19 witness: the detector had nothing to wait for, so the await of line
\* 94 is the only suspension; the handler is ready and no counter is bound.
C19_Witness ==
    /\ HandlerReady
    /\ gcpResources.present /\ ~gcpResources.waitForAsyncAttributes
    /\ pc = "await_merged"
    /\ ~Bound(requestCounter) /\ ~Bound(backgroundCounter)

\* C20: a bound backgroundCounter implies a bound requestCounter; when the
\* second createCounter call throws, the catch callback is entered with
\* requestCounter bound and backgroundCounter unbound, and that is the
\* only failure that leaves exactly one handle bound.
C20_RequestCounterFirst ==
    /\ Bound(backgroundCounter) => Bound(requestCounter)
    /\ thrown = "create_background" =>
          /\ Bound(requestCounter) /\ ~Bound(backgroundCounter)
          /\ created = <<REQUEST_COUNTER_NAME>>
    /\ (thrown # "none" /\ PartialRegistration) => thrown = "create_background"

\* C20 witness: the catch callback is about to run after the second
\* createCounter threw.
C20_Witness ==
    /\ pc = "rejected" /\ thrown = "create_background"
    /\ requestCounter = REQUEST_COUNTER_NAME
    /\ backgroundCounter = Undefined

====
